---- MODULE Spec2Model ----
(***************************************************************************)
(* Model of tsdb/query_engine.go: Planner.Plan, NewExecutor,               *)
(* Executor.Execute and the consumer of the channel Execute returns.       *)
(***************************************************************************)
EXTENDS Integers, Sequences, FiniteSets

\* ---------------------------------------------------------------- bounds
MaxSources == 2     \* longest stmt.Sources
MaxConds == 2       \* most time comparisons in stmt.Condition
MaxTime == 2        \* largest instant (literals and clock)
MaxShard == 2       \* shard IDs are 1..MaxShard
MaxNode == 2        \* node IDs are 1..MaxNode
MaxGroups == 2      \* most shard groups one lookup returns
MaxCalls == 4       \* most method calls made on one ShardMapper

\* ------------------------------------------------------------- constants
ZeroTime == -1      \* the zero time.Time (tmax.IsZero()), before the epoch
Epoch == 0          \* time.Unix(0, 0)

Nil == "nil"
NilExecutor == [nil |-> TRUE]       \* the nil *Executor

ShardIDs == 1..MaxShard
Nodes == 1..MaxNode
Times == 1..MaxTime

SourceKinds == {"Measurement", "Other"}
SeqsUpTo(S, n) == UNION {[1..k -> S] : k \in 0..n}

\* stmt.Condition: a conjunction of bounds on time, each against a literal
\* or against now().
Comparisons ==
    [op : {"GTE", "LTE"}, val : Times] \cup [op : {"GTE", "LTE"}, now : {TRUE}]
IsNow(c) == "now" \in DOMAIN c
Conditions == SeqsUpTo(Comparisons, MaxConds)

Max(a, b) == IF a >= b THEN a ELSE b
Min(a, b) == IF a <= b THEN a ELSE b

\* influxql.Reduce with a NowValuer: every now() becomes the given instant.
Reduce(cond, now) ==
    [i \in DOMAIN cond |->
        IF IsNow(cond[i]) THEN [op |-> cond[i].op, val |-> now]
        ELSE cond[i]]

\* influxql.TimeRange: the tightest lower and upper bound of the condition,
\* the zero time where the condition has none.
RECURSIVE TimeRangeFrom(_, _, _, _)
TimeRangeFrom(cond, i, min, max) ==
    IF i > Len(cond) THEN <<min, max>>
    ELSE LET c == cond[i] IN
         IF c.op = "GTE"
         THEN TimeRangeFrom(cond, i + 1,
                  IF min = ZeroTime \/ c.val > min THEN c.val ELSE min, max)
         ELSE TimeRangeFrom(cond, i + 1, min,
                  IF max = ZeroTime \/ c.val < max THEN c.val ELSE max)

TimeRange(cond) == TimeRangeFrom(cond, 1, ZeroTime, ZeroTime)

\* time.Now(): the clock at the call or one instant later.
Nows(c) == {c, Min(c + 1, MaxTime)}

\* tmax.IsZero() -> time.Now();  tmin.IsZero() -> time.Unix(0, 0)
DefaultMax(tmax, now) == IF tmax = ZeroTime THEN now ELSE tmax
DefaultMin(tmin) == IF tmin = ZeroTime THEN Epoch ELSE tmin

\* meta.ShardInfo and ShardInfo.OwnedBy
ShardInfo(id, ownerOf) == [ID |-> id, OwnerID |-> ownerOf[id]]
OwnedBy(sh, node) == sh.OwnerID = node

\* What one ShardGroupsByTimeRange call can return: up to MaxGroups groups,
\* each a non-empty list of distinct shard IDs in increasing order.
GroupChoices ==
    {g \in SeqsUpTo(ShardIDs, MaxShard) :
        Len(g) > 0 /\ \A i \in 1..(Len(g) - 1) : g[i] < g[i + 1]}
LookupResults == SeqsUpTo(GroupChoices, MaxGroups)

\* The Go map shards, as a function from keys to ShardInfo.
MapPut(m, key, sh) ==
    [k \in DOMAIN m \cup {key} |-> IF k = key THEN sh ELSE m[k]]

\* A slice in place of the map: every shard is kept under a fresh key.
AddShardAppend(m, sh) == MapPut(m, Cardinality(DOMAIN m) + 1, sh)

\* shards[sh.ID] = sh
AddShard(m, sh) == MapPut(m, sh.ID, sh)

\* for _, sh := range g.Shards { shards[sh.ID] = sh }
RECURSIVE AddGroup(_, _, _, _)
AddGroup(m, g, i, ownerOf) ==
    IF i > Len(g) THEN m
    ELSE AddGroup(AddShard(m, ShardInfo(g[i], ownerOf)), g, i + 1, ownerOf)

\* for _, g := range shardGroups { ... }
RECURSIVE AddGroups(_, _, _, _)
AddGroups(m, gs, i, ownerOf) ==
    IF i > Len(gs) THEN m
    ELSE AddGroups(AddGroup(m, gs[i], 1, ownerOf), gs, i + 1, ownerOf)

\* How often a lookup result names a shard ID.
RECURSIVE CountInGroups(_, _, _)
CountInGroups(gs, i, id) ==
    IF i > Len(gs) THEN 0
    ELSE Cardinality({j \in DOMAIN gs[i] : gs[i][j] = id})
         + CountInGroups(gs, i + 1, id)

\* The cluster is asked for every shard, local ones included.
UseLocalNever(sh, node) == FALSE

\* if sh.OwnedBy(p.MetaStore.NodeID()) { local ShardMapper } else { cluster }
UseLocal(sh, node) == OwnedBy(sh, node)

\* A failed NewMapper is skipped and planning goes on.
AbortOnNever(ok) == FALSE

\* if err != nil { return nil, err }
AbortOn(ok) == ~ok

\* The source loop is left after its first iteration.
SourcesDoneEarly(i, srcs) == i > Len(srcs) \/ i > 1

\* for _, src := range stmt.Sources: the loop is over after the last source.
SourcesDone(i, srcs) == i > Len(srcs)

\* NewExecutor(mappers)
NewExecutor(ms) == [mappers |-> ms]

EmptyMap == [k \in {} |-> Nil]

\* ShardMapper: a struct with no fields.  Every method takes the struct value
\* and gives the value it leaves behind and what it returns.
EmptyShardMapper == <<>>
NoReturn == [void |-> TRUE]         \* a method with no result
Methods == {"Open", "Begin", "NextChunk", "Close"}

\* func (sm *ShardMapper) Open() error { return nil }
ShardMapperOpen(s) == [sm |-> s, ret |-> [err |-> Nil]]

\* Close leaves a mark in the mapper every time it is called.
ShardMapperCloseMarking(s) == [sm |-> Append(s, "closed"), ret |-> NoReturn]

\* func (sm *ShardMapper) Close() {}
ShardMapperClose(s) == [sm |-> s, ret |-> NoReturn]

\* func (sm *ShardMapper) Begin(stmt, chunkSize) error { return nil }
ShardMapperBegin(s) == [sm |-> s, ret |-> [err |-> Nil]]

\* func (sm *ShardMapper) NextChunk() (...) { return "", nil, 0, nil }
ShardMapperNextChunk(s) ==
    [sm |-> s,
     ret |-> [tagSet |-> "", result |-> Nil, interval |-> 0, err |-> Nil]]

ShardMapperCall(method, s) ==
    CASE method = "Open" -> ShardMapperOpen(s)
      [] method = "Begin" -> ShardMapperBegin(s)
      [] method = "NextChunk" -> ShardMapperNextChunk(s)
      [] method = "Close" -> ShardMapperClose(s)

VARIABLES
    stmtSources,    \* stmt.Sources
    stmtCondition,  \* stmt.Condition
    ownerOf,        \* the catalog: owning node of every shard
    nodeID,         \* MetaStore.NodeID()
    clock,          \* the wall clock
    pc,             \* position of Plan: "sources", "mappers", "returned"
    idx,            \* index of the next source
    shards,         \* Plan's map of shards requiring mappers
    pending,        \* keys of shards the mapper loop has not visited yet
    mappers,        \* Plan's mappers slice
    executor,       \* Plan's first return value
    err,            \* Plan's second return value
    lookups,        \* the (min, max) of every ShardGroupsByTimeRange call
    lookupErr,      \* some ShardGroupsByTimeRange call failed
    returned,       \* per shard ID, how often the lookups returned it
    newMapperCalls, \* per shard ID, the number of Cluster.NewMapper calls
    clusterErr,     \* some Cluster.NewMapper call failed
    out,            \* the channel of Execute: "nil", "open", "closed"
    received,       \* the Rows the consumer has received from out
    mapperCalls,    \* the calls the Executor has made on its mappers
    consumer,       \* the caller of Execute: "none", "receiving", "stopped"
    sm,             \* a ShardMapper driven directly by a caller
    smCalls,        \* the methods called on sm, in order
    smRet,          \* what the last call on sm returned
    smClosedAs      \* sm as the first Close of the current run of Closes left it

vars == <<stmtSources, stmtCondition, ownerOf, nodeID, clock, pc, idx, shards,
          pending, mappers, executor, err, lookups, lookupErr, returned,
          newMapperCalls, clusterErr, out, received, mapperCalls, consumer,
          sm, smCalls, smRet, smClosedAs>>

planVars == <<pc, idx, shards, pending, mappers, executor, err>>
catalogVars == <<ownerOf, nodeID>>
lookupVars == <<lookups, lookupErr, returned>>
clusterVars == <<newMapperCalls, clusterErr>>
execVars == <<out, received, mapperCalls, consumer>>
smVars == <<sm, smCalls, smRet, smClosedAs>>

Init ==
    /\ stmtSources \in SeqsUpTo(SourceKinds, MaxSources)
    /\ stmtCondition \in Conditions
    /\ ownerOf \in [ShardIDs -> Nodes]
    /\ nodeID \in Nodes
    /\ clock = 1
    /\ pc = "sources"
    /\ idx = 1
    /\ shards = EmptyMap
    /\ pending = {}
    /\ mappers = <<>>
    /\ executor = NilExecutor
    /\ err = Nil
    /\ lookups = <<>>
    /\ lookupErr = FALSE
    /\ returned = [id \in ShardIDs |-> 0]
    /\ newMapperCalls = [id \in ShardIDs |-> 0]
    /\ clusterErr = FALSE
    /\ out = Nil
    /\ received = <<>>
    /\ mapperCalls = <<>>
    /\ consumer = "none"
    /\ sm = EmptyShardMapper
    /\ smCalls = <<>>
    /\ smRet = NoReturn
    /\ smClosedAs = <<>>

\* The source loop meets a source that is not a *influxql.Measurement.
PlanInvalidSource ==
    /\ pc = "sources"
    /\ ~SourcesDone(idx, stmtSources)
    /\ stmtSources[idx] # "Measurement"
    /\ executor' = NilExecutor
    /\ err' = "invalid source type"
    /\ pc' = "returned"
    /\ UNCHANGED <<stmtSources, stmtCondition, clock, idx, shards, pending,
                   mappers>>
    /\ UNCHANGED <<catalogVars, lookupVars, clusterVars, execVars>>
    /\ UNCHANGED smVars

\* One iteration of the source loop for a measurement: reduce the condition,
\* take the time range, look the shard groups up and add their shards.
PlanSource ==
    /\ pc = "sources"
    /\ ~SourcesDone(idx, stmtSources)
    /\ stmtSources[idx] = "Measurement"
    /\ \E n1 \in Nows(clock) : \E n2 \in Nows(n1) :
         LET reduced == Reduce(stmtCondition, n1)
             tr == TimeRange(reduced)
             tmax == DefaultMax(tr[2], n2)
             tmin == DefaultMin(tr[1])
         IN /\ stmtCondition' = reduced
            /\ clock' = IF tr[2] = ZeroTime THEN n2 ELSE n1
            /\ lookups' = Append(lookups, [min |-> tmin, max |-> tmax])
            /\ \/ \* ShardGroupsByTimeRange fails
                  /\ lookupErr' = TRUE
                  /\ executor' = NilExecutor
                  /\ err' = "lookup failed"
                  /\ pc' = "returned"
                  /\ UNCHANGED <<idx, shards, returned>>
               \/ \* ShardGroupsByTimeRange returns shard groups
                  \E gs \in LookupResults :
                     /\ shards' = AddGroups(shards, gs, 1, ownerOf)
                     /\ returned' = [id \in ShardIDs |->
                                       returned[id] + CountInGroups(gs, 1, id)]
                     /\ idx' = idx + 1
                     /\ UNCHANGED <<lookupErr, executor, err, pc>>
    /\ UNCHANGED <<stmtSources, pending, mappers>>
    /\ UNCHANGED <<catalogVars, clusterVars, execVars>>
    /\ UNCHANGED smVars

\* The source loop is over: mappers := []Mapper{} and the range over shards
\* begins.
PlanBeginMappers ==
    /\ pc = "sources"
    /\ SourcesDone(idx, stmtSources)
    /\ mappers' = <<>>
    /\ pending' = DOMAIN shards
    /\ pc' = "mappers"
    /\ UNCHANGED <<stmtSources, stmtCondition, clock, idx, shards, executor,
                   err>>
    /\ UNCHANGED <<catalogVars, lookupVars, clusterVars, execVars>>
    /\ UNCHANGED smVars

\* One iteration of the mapper loop, over any shard not yet visited (the
\* iteration order of a Go map is unspecified).
PlanMapper ==
    /\ pc = "mappers"
    /\ \E k \in pending :
         LET sh == shards[k] IN
         /\ pending' = pending \ {k}
         /\ IF UseLocal(sh, nodeID)
            THEN /\ mappers' = Append(mappers,
                                  [kind |-> "ShardMapper", shard |-> sh.ID])
                 /\ UNCHANGED <<clusterVars, executor, err, pc>>
            ELSE /\ newMapperCalls' =
                        [newMapperCalls EXCEPT ![sh.ID] = @ + 1]
                 /\ \E ok \in BOOLEAN :
                      /\ clusterErr' = (clusterErr \/ ~ok)
                      /\ IF AbortOn(ok)
                         THEN /\ executor' = NilExecutor
                              /\ err' = "new mapper failed"
                              /\ pc' = "returned"
                              /\ UNCHANGED mappers
                         ELSE /\ mappers' = Append(mappers,
                                      [kind |-> IF ok THEN "remote" ELSE Nil,
                                       shard |-> sh.ID])
                              /\ UNCHANGED <<executor, err, pc>>
    /\ UNCHANGED <<stmtSources, stmtCondition, clock, idx, shards>>
    /\ UNCHANGED <<catalogVars, lookupVars, execVars>>
    /\ UNCHANGED smVars

\* return NewExecutor(mappers), nil
PlanReturn ==
    /\ pc = "mappers"
    /\ pending = {}
    /\ executor' = NewExecutor(mappers)
    /\ err' = Nil
    /\ pc' = "returned"
    /\ UNCHANGED <<stmtSources, stmtCondition, clock, idx, shards, pending,
                   mappers>>
    /\ UNCHANGED <<catalogVars, lookupVars, clusterVars, execVars>>
    /\ UNCHANGED smVars

\* Executor.Execute: makes the unbuffered channel and returns it.  No
\* goroutine is started, no mapper is called, nothing is sent on the channel
\* and it is never closed.
Execute ==
    /\ pc = "returned"
    /\ executor # NilExecutor
    /\ out = Nil
    /\ out' = "open"
    /\ UNCHANGED <<stmtSources, stmtCondition, clock, received, mapperCalls,
                   consumer>>
    /\ UNCHANGED <<planVars, catalogVars, lookupVars, clusterVars>>
    /\ UNCHANGED smVars

\* The caller starts to receive from the channel (for row := range out).
\* An unbuffered receive completes only against a sender or a close.
ConsumerReceive ==
    /\ out = "open"
    /\ consumer = "none"
    /\ consumer' = "receiving"
    /\ UNCHANGED <<stmtSources, stmtCondition, clock, out, received,
                   mapperCalls>>
    /\ UNCHANGED <<planVars, catalogVars, lookupVars, clusterVars>>
    /\ UNCHANGED smVars

\* The caller gives the channel up before the sequence has ended.
ConsumerStop ==
    /\ out = "open"
    /\ consumer \in {"none", "receiving"}
    /\ consumer' = "stopped"
    /\ UNCHANGED <<stmtSources, stmtCondition, clock, out, received,
                   mapperCalls>>
    /\ UNCHANGED <<planVars, catalogVars, lookupVars, clusterVars>>
    /\ UNCHANGED smVars

PlanStep ==
    PlanInvalidSource \/ PlanSource \/ PlanBeginMappers \/ PlanMapper
        \/ PlanReturn

Next ==
    \/ PlanInvalidSource
    \/ PlanSource
    \/ PlanBeginMappers
    \/ PlanMapper
    \/ PlanReturn
    \/ Execute
    \/ ConsumerReceive
    \/ ConsumerStop

Spec == Init /\ [][Next]_vars

\* The Go scheduler runs every runnable goroutine: Plan and Execute go on
\* while they can.  The caller is free to receive, to stop, or to do neither.
FairSpec == Spec /\ WF_vars(PlanStep) /\ WF_vars(Execute)

\* ----------------------------------------------- a ShardMapper on its own

\* A caller holding one local ShardMapper, before any Plan.
MapperInit ==
    /\ stmtSources = <<>>
    /\ stmtCondition = <<>>
    /\ ownerOf \in [ShardIDs -> Nodes]
    /\ nodeID \in Nodes
    /\ clock = 1
    /\ pc = "sources"
    /\ idx = 1
    /\ shards = EmptyMap
    /\ pending = {}
    /\ mappers = <<>>
    /\ executor = NilExecutor
    /\ err = Nil
    /\ lookups = <<>>
    /\ lookupErr = FALSE
    /\ returned = [id \in ShardIDs |-> 0]
    /\ newMapperCalls = [id \in ShardIDs |-> 0]
    /\ clusterErr = FALSE
    /\ out = Nil
    /\ received = <<>>
    /\ mapperCalls = <<>>
    /\ consumer = "none"
    /\ sm = EmptyShardMapper
    /\ smCalls = <<>>
    /\ smRet = NoReturn
    /\ smClosedAs = <<>>

\* The caller calls one method of the ShardMapper, in any order.
CallShardMapper(method) ==
    /\ Len(smCalls) < MaxCalls
    /\ LET r == ShardMapperCall(method, sm) IN
         /\ sm' = r.sm
         /\ smRet' = r.ret
         /\ smClosedAs' =
               IF method # "Close" THEN <<>>
               ELSE IF smClosedAs = <<>> THEN <<r.sm>>
               ELSE smClosedAs
    /\ smCalls' = Append(smCalls, method)
    /\ UNCHANGED <<stmtSources, stmtCondition, clock>>
    /\ UNCHANGED <<planVars, catalogVars, lookupVars, clusterVars, execVars>>

MapperOpen == CallShardMapper("Open")
MapperBegin == CallShardMapper("Begin")
MapperNextChunk == CallShardMapper("NextChunk")
MapperClose == CallShardMapper("Close")

MapperNext == MapperOpen \/ MapperBegin \/ MapperNextChunk \/ MapperClose

MapperSpec == MapperInit /\ [][MapperNext]_vars

\* ------------------------------------------------------------ properties

AllMeasurements == \A i \in DOMAIN stmtSources : stmtSources[i] = "Measurement"

\* The shard IDs in the union of the shard groups the lookups returned.
Touched == {id \in ShardIDs : returned[id] > 0}

\* The mappers of the Executor that Plan returned.
ExecMappers == IF executor = NilExecutor THEN <<>> ELSE executor.mappers

MappersOf(id) == {i \in DOMAIN ExecMappers : ExecMappers[i].shard = id}

\* The number of Close() calls a mapper of the Executor has received.
CloseCount(i) ==
    Cardinality({j \in DOMAIN mapperCalls :
                    mapperCalls[j] = [mapper |-> i, method |-> "Close"]})

\* C1: the Executor that Plan returns holds exactly one mapper for every
\* distinct shard ID in the union of the returned shard groups, and no other
\* mapper, however often the lookups returned that ID.
C1_OneMapperPerShard ==
    executor # NilExecutor =>
        /\ Len(ExecMappers) = Cardinality(Touched)
        /\ \A id \in Touched : Cardinality(MappersOf(id)) = 1

\* Plan returned an Executor after two sources whose lookups returned one
\* shard ID three times or more.
C1_Witness ==
    /\ executor # NilExecutor
    /\ Len(stmtSources) = 2
    /\ \E id \in ShardIDs : returned[id] >= 3

\* Cluster.NewMapper is never called with the ID of a shard the local node
\* owns.
NoLocalNewMapper ==
    \A id \in ShardIDs : ownerOf[id] = nodeID => newMapperCalls[id] = 0

\* C2 as stated: NewMapper is never called for a locally owned shard, and
\* once Plan is over with no NewMapper call having failed, it has been called
\* exactly once for every touched shard that is not locally owned.
C2_AsStated ==
    /\ NoLocalNewMapper
    /\ (pc = "returned" /\ ~clusterErr) =>
          \A id \in Touched : ownerOf[id] # nodeID => newMapperCalls[id] = 1

\* C2: NewMapper is never called for a locally owned shard and never twice
\* for one shard ID; when Plan returns an Executor it has been called exactly
\* once for every touched shard that is not locally owned.
C2_NewMapperCalls ==
    /\ NoLocalNewMapper
    /\ \A id \in ShardIDs : newMapperCalls[id] <= 1
    /\ executor # NilExecutor =>
          \A id \in Touched : ownerOf[id] # nodeID => newMapperCalls[id] = 1

\* Plan returned an Executor for a local and a remote shard, each returned
\* more than once.
C2_Witness ==
    /\ executor # NilExecutor
    /\ \E a, b \in Touched :
          /\ ownerOf[a] = nodeID /\ returned[a] >= 2
          /\ ownerOf[b] # nodeID /\ returned[b] >= 2 /\ newMapperCalls[b] = 1

\* C3: Plan returns an Executor exactly when every source is a measurement
\* and no lookup and no NewMapper call failed; otherwise it returns an error
\* and the nil Executor.  Until Plan returns there is no Executor.
C3_ExecutorIff ==
    /\ pc # "returned" => executor = NilExecutor /\ err = Nil
    /\ pc = "returned" =>
          /\ (executor # NilExecutor)
                <=> (AllMeasurements /\ ~lookupErr /\ ~clusterErr)
          /\ (executor = NilExecutor) <=> (err # Nil)

\* NewMapper failed after Plan had already built a mapper: Plan returned the
\* error and no Executor.
C3_Witness ==
    /\ pc = "returned"
    /\ err = "new mapper failed"
    /\ Len(mappers) > 0
    /\ executor = NilExecutor

\* C4: every (min, max) that Plan passes to ShardGroupsByTimeRange has
\* min <= max.
C4_MinLeMax ==
    \A i \in DOMAIN lookups : lookups[i].min <= lookups[i].max

\* C6: once the consumer has stopped receiving, eventually every mapper of
\* the Executor has received exactly one Close() call.
C6_StopClosesAll ==
    (consumer = "stopped")
        ~> (\A i \in DOMAIN ExecMappers : CloseCount(i) = 1)

\* C7: when every mapper of the Executor is one that reports exhaustion on
\* its first NextChunk (a local ShardMapper), or there is no mapper at all,
\* the channel Execute returned is eventually closed with no error.
C7_ExhaustedCloses ==
    (out = "open" /\ \A i \in DOMAIN ExecMappers :
                        ExecMappers[i].kind = "ShardMapper")
        ~> (out = "closed" /\ \A j \in DOMAIN received : received[j].err = Nil)

\* C8: a caller receiving from the channel of Execute eventually gets the
\* end of the sequence or a terminating error; the sequence never stalls.
C8_CompleteOrError ==
    (consumer = "receiving")
        ~> (out = "closed" \/ \E j \in DOMAIN received : received[j].err # Nil)

\* The number of calls of a method the mapper at an index has received.
CallCount(i, method) ==
    Cardinality({j \in DOMAIN mapperCalls :
                    mapperCalls[j] = [mapper |-> i, method |-> method]})

\* C11: every mapper held by an Executor is closed exactly once whatever the
\* outcome: once Execute has run, eventually each of its mappers has received
\* exactly one Close() call.
C11_ClosedExactlyOnce ==
    (out = "open")
        ~> (\A i \in DOMAIN ExecMappers : CallCount(i, "Close") = 1)

\* C12: no step of Plan changes the statement: its sources and its condition
\* stay what they were before the call.
C12_StatementUnchanged ==
    [][stmtSources' = stmtSources /\ stmtCondition' = stmtCondition]_vars

\* C14: once Execute has run, eventually every mapper of the Executor has
\* received Open and Begin exactly once each.
C14_OpenedAndBegun ==
    (out = "open")
        ~> (\A i \in DOMAIN ExecMappers :
               CallCount(i, "Open") = 1 /\ CallCount(i, "Begin") = 1)

\* C17: all ShardGroupsByTimeRange lookups of one Plan call receive the same
\* min and the same max.
C17_OneTimeRange ==
    \A i, j \in DOMAIN lookups : lookups[i] = lookups[j]

\* C18: when Plan returns because NewMapper failed, every mapper it had
\* already obtained from the cluster has received exactly one Close() call.
C18_FailedPlanClosesMappers ==
    (pc = "returned" /\ err = "new mapper failed") =>
        \A i \in DOMAIN mappers :
            mappers[i].kind = "remote" => CallCount(i, "Close") = 1

NoNewMapperCall == \A id \in ShardIDs : newMapperCalls[id] = 0

\* C19: Plan is phased.  NewMapper is called only after every source has been
\* type-checked and every lookup has succeeded; a Plan that failed on an
\* invalid source or on a lookup has made no NewMapper call, and it made no
\* lookup for the sources after the failing one.
C19_Phased ==
    /\ ~NoNewMapperCall =>
          /\ AllMeasurements
          /\ ~lookupErr
          /\ Len(lookups) = Len(stmtSources)
    /\ err = "invalid source type" =>
          /\ NoNewMapperCall
          /\ stmtSources[idx] # "Measurement"
          /\ Len(lookups) = idx - 1
    /\ err = "lookup failed" => NoNewMapperCall /\ Len(lookups) = idx

\* The lookup of the first source returned a shard the local node does not
\* own and Plan failed on its second source: no NewMapper call was made.
C19_Witness ==
    /\ pc = "returned"
    /\ err \in {"invalid source type", "lookup failed"}
    /\ idx = 2
    /\ \E id \in Touched : ownerOf[id] # nodeID
    /\ NoNewMapperCall

LastCall == IF smCalls = <<>> THEN Nil ELSE smCalls[Len(smCalls)]

\* C20: after any calls on a ShardMapper, a run of one or more Close calls
\* leaves it as the first Close of the run left it, Close reports nothing,
\* and NextChunk always answers with the clean-exhaustion signal.
C20_CloseIdempotent ==
    /\ LastCall = "Close" =>
          /\ smClosedAs # <<>>
          /\ sm = smClosedAs[1]
          /\ smRet = NoReturn
    /\ LastCall = "NextChunk" =>
          smRet = [tagSet |-> "", result |-> Nil, interval |-> 0, err |-> Nil]

\* Open, NextChunk, then Close twice.
C20_Witness ==
    /\ Len(smCalls) = 4
    /\ smCalls[1] = "Open"
    /\ smCalls[2] = "NextChunk"
    /\ smCalls[3] = "Close"
    /\ smCalls[4] = "Close"

====
